---- MODULE Spec2Model ----
(***************************************************************************)
(* notion-to-hexo: the resilient request client (network.py), the         *)
(* paginated block fetcher (notion.py) and the block tree renderer        *)
(* (converter.py).                                                         *)
(*                                                                         *)
(* Spec        one _fetch_all_blocks call; every page request runs        *)
(*             through request_with_retry against a server that serves    *)
(*             srvN children in pages of srvP and may fail any attempt.   *)
(* SpecRender  one blocks_to_markdown call on a bounded block tree with a *)
(*             children provider that may fail per block or be absent.    *)
(***************************************************************************)
EXTENDS Integers, Sequences, FiniteSets, TLC

\* ------------------------------------------------------------------ bounds
MaxChildren == 4
MaxPageSize == 3
MaxBlocks == 3

\* --------------------------------------------------- config.py constants
MAX_RETRIES == 3
RETRY_BACKOFF == 2

VARIABLES
    \* request_with_retry (network.py)
    rpc,             \* "idle" (no call yet) | "attempt" | "sleep" | "returned" | "raised"
    attempt,         \* loop variable of: for attempt in range(MAX_RETRIES)
    last_exception,  \* network.py:36
    response,        \* the response returned by request_with_retry
    raised,          \* the exception request_with_retry raised
    outcomes,        \* history: outcome of every attempt of the current call
    sleeps,          \* history: wait_time of every time.sleep of the current call
    \* _fetch_all_blocks (notion.py)
    fpc,             \* "start" | "waiting" | "returned" | "raised"
    srvN, srvP,      \* the server: srvN children served in pages of srvP
    all_blocks, has_more, start_cursor,
    params,          \* params of the request in flight
    requests,        \* history: params of every request_with_retry call
    responses,       \* history: JSON body of every response received
    fresult,         \* the list _fetch_all_blocks returned
    fraised,         \* the exception _fetch_all_blocks raised
    \* a second run of the same request_with_retry call, fed the same outcomes
    \* except that connection failures and 5xx responses may be exchanged
    t_rpc, t_attempt, t_last_exception, t_outcomes, t_sleeps,
    \* blocks_to_markdown (converter.py): the block tree behind the provider
    blkParent,       \* blkParent[i]: parent of block i, 0 for a top-level block
    blkType,         \* blkType[i]: block['type']
    blkMode,         \* "leaf": has_children false | "ok" | "fail": fetch raises
    blkCells,        \* blkCells[i]: number of cells of block i (a table_row)
    blkMissing,      \* blkMissing[i]: the expected keys block i does not have
    given,           \* fetch_children is not None
    rendered,        \* blocks_to_markdown was called and ended
    md,              \* the string it returned
    mdRaised,        \* it raised instead of returning
    calls,           \* the block ids fetch_children was called with, in order
    content,         \* a string _has_math_content is called on, as characters
    detectCalled,    \* that call was made
    detected,        \* what it returned
    properties,      \* the properties of the page fetch_notion_page reads
    page_runs,       \* the rich text of the page's one paragraph
    pageCalled,      \* fetch_notion_page was called on that page
    markdown_content, \* the Markdown it returned, as characters
    mathjax,         \* the mathjax flag it returned
    \* rich_text_to_markdown (converter.py): calls on A, on B and on A + B
    rtA, rtB,        \* two rich text arrays
    rtCalled,        \* the three calls were made
    rtOutA, rtOutB,  \* rich_text_to_markdown(A), rich_text_to_markdown(B)
    rtOutAB,         \* rich_text_to_markdown(A + B)
    \* fetch_notion_page (notion.py): concurrent conversion runs
    frames,          \* frames[s]: the locals of the call frames of one run
    alone            \* alone[p]: run p as it goes when no other run exists

retryVars == <<rpc, attempt, last_exception, response, raised, outcomes, sleeps>>
twinVars == <<t_rpc, t_attempt, t_last_exception, t_outcomes, t_sleeps>>
fetchVars == <<fpc, srvN, srvP, all_blocks, has_more, start_cursor, params,
               requests, responses, fresult, fraised>>
richVars == <<rtA, rtB, rtCalled, rtOutA, rtOutB, rtOutAB>>
convVars == <<frames, alone>>
mathVars == <<content, detectCalled, detected, properties, page_runs, pageCalled,
              markdown_content, mathjax>>
renderVars == <<blkParent, blkType, blkMode, blkCells, blkMissing, given, rendered, md,
                mdRaised, calls, mathVars, richVars, convVars>>
vars == <<retryVars, twinVars, fetchVars, renderVars>>

\* ------------------------------------------------------------- exceptions
Exc(kind, status) == [kind |-> kind, status |-> status]
NoException == Exc("none", 0)
TimeoutExc == Exc("Timeout", 0)
ConnectionExc == Exc("ConnectionError", 0)
HTTPError(status) == Exc("HTTPError", status)
FallbackExc == Exc("RequestException", 0)
JSONExc == Exc("JSONDecodeError", 0)

\* ----------------------------------------------------------------- server
\* A cursor is an opaque non-empty token; the token of offset k is k (k >= 1)
\* and NoCursor stands for None / an absent key.
NoCursor == 0

Range(a, b) == [i \in 1..(IF b >= a THEN b - a + 1 ELSE 0) |-> a + i - 1]
Min(a, b) == IF a <= b THEN a ELSE b

\* The page a cursor-honouring server returns for a request with cursor.
ServerPage(n, p, cursor) ==
    [results |-> Range(cursor + 1, Min(cursor + p, n)),
     has_more |-> cursor + p < n,
     next_cursor |-> IF cursor + p < n THEN cursor + p ELSE NoCursor]

Statuses == {200, 304, 404, 429, 500, 503}

\* What one HTTP attempt can end in: a network failure or a response status.
Outcomes ==
    {[kind |-> k, status |-> 0] : k \in {"Timeout", "ConnectionError", "TooManyRedirects"}}
    \cup {[kind |-> "status", status |-> s] : s \in Statuses}

NoResponse == [status |-> 0, json |-> FALSE, body |-> ServerPage(0, 1, 0)]
\* Only a 200 response carries the JSON page; any other body is not JSON.
Response(status, page) ==
    [status |-> status, json |-> status = 200,
     body |-> IF status = 200 THEN page ELSE ServerPage(0, 1, 0)]

\* ------------------------------------------------- request_with_retry
RECURSIVE Pow(_, _)
Pow(b, e) == IF e = 0 THEN 1 ELSE b * Pow(b, e - 1)

\* wait_time = RETRY_BACKOFF ** attempt
wait_timeLinear(a) == RETRY_BACKOFF * a
wait_time(a) == Pow(RETRY_BACKOFF, a)

\* response.raise_for_status(): raises HTTPError for 4xx and 5xx statuses.
RaisesForStatus(status) == status >= 400 /\ status < 600

\* 400 <= e.response.status_code < 500
IsClientErrorOnly404(status) == status = 404
IsClientError(status) == 400 <= status /\ status < 500

\* for attempt in range(MAX_RETRIES)
LoopContinuesOffByOne(a) == a <= MAX_RETRIES
LoopContinues(a) == a < MAX_RETRIES

\* What the try/except of one loop iteration does with the attempt's outcome:
\* the next control point, last_exception, the time.sleep it makes (zero or
\* one wait) and the exception it raises.
Step(pc, last, sleep, exc) == [rpc |-> pc, last |-> last, sleep |-> sleep, raised |-> exc]

OnSuccessRaisesLast(last) ==
    IF last # NoException THEN Step("raised", last, <<>>, last)
    ELSE Step("returned", last, <<>>, NoException)
OnSuccess(last) == Step("returned", last, <<>>, NoException)
OnTimeoutNotRecorded(a) == Step("sleep", NoException, <<wait_time(a)>>, NoException)
OnTimeout(a) == Step("sleep", TimeoutExc, <<wait_time(a)>>, NoException)
OnConnectionError(a) == Step("sleep", ConnectionExc, <<wait_time(a)>>, NoException)
OnHTTPErrorNoRetry(status, a, last) == Step("raised", last, <<>>, HTTPError(status))
OnHTTPError(status, a, last) ==
    IF IsClientError(status)
    THEN Step("raised", last, <<>>, HTTPError(status))
    ELSE Step("sleep", HTTPError(status), <<wait_time(a)>>, NoException)

HandleOutcome(o, a, last) ==
    IF o.kind = "status" /\ ~RaisesForStatus(o.status) THEN OnSuccess(last)
    ELSE IF o.kind = "Timeout" THEN OnTimeout(a)
    ELSE IF o.kind = "ConnectionError" THEN OnConnectionError(a)
    ELSE IF o.kind = "status" THEN OnHTTPError(o.status, a, last)
    ELSE Step("raised", last, <<>>, Exc(o.kind, 0))  \* not caught: propagates

\* time.sleep returned: the loop takes its next iteration or is exhausted.
AfterSleepGeneric(a, last) ==
    IF LoopContinues(a + 1)
    THEN [rpc |-> "attempt", attempt |-> a + 1, raised |-> NoException]
    ELSE [rpc |-> "raised", attempt |-> a, raised |-> FallbackExc]
AfterSleep(a, last) ==
    IF LoopContinues(a + 1)
    THEN [rpc |-> "attempt", attempt |-> a + 1, raised |-> NoException]
    ELSE [rpc |-> "raised", attempt |-> a,
          raised |-> IF last # NoException THEN last ELSE FallbackExc]

\* The outcomes the second run may see in place of o.
IsConnOr5xx(o) == o.kind = "ConnectionError" \/ (o.kind = "status" /\ o.status >= 500)
Exchange(o) == IF IsConnOr5xx(o) THEN {x \in Outcomes : IsConnOr5xx(x)} ELSE {o}

Cursor(ps) == IF ps = {} THEN NoCursor ELSE (CHOOSE kv \in ps : kv[1] = "start_cursor")[2]

\* One HTTP attempt: getattr(requests, method)(url, **kwargs) and its handling.
Attempt ==
    /\ rpc = "attempt"
    /\ \E o \in Outcomes :
         LET h == HandleOutcome(o, attempt, last_exception) IN
           /\ outcomes' = Append(outcomes, o)
           /\ rpc' = h.rpc
           /\ last_exception' = h.last
           /\ sleeps' = sleeps \o h.sleep
           /\ raised' = h.raised
           /\ response' = IF h.rpc = "returned"
                          THEN Response(o.status, ServerPage(srvN, srvP, Cursor(params)))
                          ELSE NoResponse
           /\ IF t_rpc = "attempt"
              THEN \E o2 \in Exchange(o) :
                     LET h2 == HandleOutcome(o2, t_attempt, t_last_exception) IN
                       /\ t_outcomes' = Append(t_outcomes, o2)
                       /\ t_rpc' = h2.rpc
                       /\ t_last_exception' = h2.last
                       /\ t_sleeps' = t_sleeps \o h2.sleep
              ELSE UNCHANGED <<t_outcomes, t_rpc, t_last_exception, t_sleeps>>
    /\ UNCHANGED <<attempt, t_attempt, fetchVars, renderVars>>

\* time.sleep(wait_time) returns.
SleepReturns ==
    /\ rpc = "sleep"
    /\ LET n == AfterSleep(attempt, last_exception) IN
         /\ rpc' = n.rpc
         /\ attempt' = n.attempt
         /\ raised' = n.raised
    /\ IF t_rpc = "sleep"
       THEN LET n2 == AfterSleep(t_attempt, t_last_exception) IN
              /\ t_rpc' = n2.rpc
              /\ t_attempt' = n2.attempt
       ELSE UNCHANGED <<t_rpc, t_attempt>>
    /\ UNCHANGED <<last_exception, response, outcomes, sleeps,
                   t_last_exception, t_outcomes, t_sleeps, fetchVars, renderVars>>

\* --------------------------------------------------- _fetch_all_blocks
\* if start_cursor:
Truthy(cursor) == cursor # NoCursor

\* params = {}; if start_cursor: params['start_cursor'] = start_cursor
BuildParamsNoCursor(cursor) == {}
BuildParams(cursor) == IF Truthy(cursor) THEN {<<"start_cursor", cursor>>} ELSE {}

\* all_blocks.extend(data.get('results', []))
ExtendReplace(blocks, results) == results
Extend(blocks, results) == blocks \o results

\* An exception of request_with_retry is not caught in _fetch_all_blocks.
OnRequestErrorPartial(blocks, exc) ==
    [fpc |-> "returned", fresult |-> blocks, fraised |-> NoException]
OnRequestErrorReturnsEmpty(blocks, exc) ==
    [fpc |-> "returned", fresult |-> <<>>, fraised |-> NoException]
OnRequestError(blocks, exc) ==
    [fpc |-> "raised", fresult |-> <<>>, fraised |-> exc]

\* request_with_retry('get', url, headers=headers, params=params, timeout_type='api')
CallRequest(cursor) ==
    /\ params' = BuildParams(cursor)
    /\ requests' = Append(requests, BuildParams(cursor))
    /\ rpc' = "attempt"
    /\ attempt' = 0
    /\ last_exception' = NoException
    /\ response' = NoResponse
    /\ raised' = NoException
    /\ outcomes' = <<>>
    /\ sleeps' = <<>>
    /\ t_rpc' = "attempt"
    /\ t_attempt' = 0
    /\ t_last_exception' = NoException
    /\ t_outcomes' = <<>>
    /\ t_sleeps' = <<>>

\* Entry: all_blocks = [], has_more = True, start_cursor = None; first request.
FetchCall ==
    /\ fpc = "start"
    /\ has_more
    /\ fpc' = "waiting"
    /\ CallRequest(start_cursor)
    /\ UNCHANGED <<srvN, srvP, all_blocks, has_more, start_cursor, responses,
                   fresult, fraised, renderVars>>

\* A response arrived whose body is not JSON: response.json() raises.
FetchBadJSON ==
    /\ fpc = "waiting"
    /\ rpc = "returned"
    /\ ~response.json
    /\ fpc' = "raised"
    /\ fraised' = JSONExc
    /\ UNCHANGED <<rpc, attempt, last_exception, response, raised, outcomes, sleeps,
                   twinVars, srvN, srvP, all_blocks, has_more, start_cursor,
                   params, requests, responses, fresult, renderVars>>

\* A page arrived with has_more = true: extend and request the next page.
FetchMore ==
    /\ fpc = "waiting"
    /\ rpc = "returned"
    /\ response.json
    /\ response.body.has_more
    /\ all_blocks' = Extend(all_blocks, response.body.results)
    /\ has_more' = response.body.has_more
    /\ start_cursor' = response.body.next_cursor
    /\ responses' = Append(responses, response.body)
    /\ CallRequest(response.body.next_cursor)
    /\ UNCHANGED <<fpc, srvN, srvP, fresult, fraised, renderVars>>

\* A page arrived with has_more = false: extend, leave the loop and return.
FetchLast ==
    /\ fpc = "waiting"
    /\ rpc = "returned"
    /\ response.json
    /\ ~response.body.has_more
    /\ all_blocks' = Extend(all_blocks, response.body.results)
    /\ has_more' = response.body.has_more
    /\ start_cursor' = response.body.next_cursor
    /\ responses' = Append(responses, response.body)
    /\ fresult' = Extend(all_blocks, response.body.results)
    /\ fpc' = "returned"
    /\ UNCHANGED <<rpc, attempt, last_exception, response, raised, outcomes, sleeps,
                   twinVars, srvN, srvP, params, requests, fraised, renderVars>>

\* request_with_retry raised: the exception leaves _fetch_all_blocks.
FetchPropagate ==
    /\ fpc = "waiting"
    /\ rpc = "raised"
    /\ LET r == OnRequestError(all_blocks, raised) IN
         /\ fpc' = r.fpc
         /\ fresult' = r.fresult
         /\ fraised' = r.fraised
    /\ UNCHANGED <<rpc, attempt, last_exception, response, raised, outcomes, sleeps,
                   twinVars, srvN, srvP, all_blocks, has_more, start_cursor,
                   params, requests, responses, renderVars>>

\* ------------------------------------------------------------ strings
\* A Python string is a sequence of tokens: markup literals, the line break
\* "\n", the two-space indent unit "  " and atoms of user text.
NL == "\n"
IndentUnit == "  "
IsSpace(tok) == tok \in {NL, IndentUnit, " "}
\* The backquote character and the code fence of three backquotes.
Backtick == "<backquote>"
Fence == "<backquote><backquote><backquote>"

\* sep.join(parts)
RECURSIVE Join(_, _)
Join(sep, parts) ==
    IF Len(parts) = 0 THEN <<>>
    ELSE IF Len(parts) = 1 THEN parts[1]
    ELSE parts[1] \o sep \o Join(sep, Tail(parts))

\* s.split('\n')
RECURSIVE SplitLines(_)
SplitLines(str) ==
    IF \E k \in 1..Len(str) : str[k] = NL
    THEN LET k == CHOOSE j \in 1..Len(str) :
                      str[j] = NL /\ \A m \in 1..(j - 1) : str[m] # NL
         IN <<SubSeq(str, 1, k - 1)>> \o SplitLines(SubSeq(str, k + 1, Len(str)))
    ELSE <<str>>

\* s.strip()
RECURSIVE Strip(_)
Strip(str) ==
    IF Len(str) = 0 THEN str
    ELSE IF IsSpace(str[1]) THEN Strip(Tail(str))
    ELSE IF IsSpace(str[Len(str)]) THEN Strip(SubSeq(str, 1, Len(str) - 1))
    ELSE str

\* '  ' * level
Indent(level) == [k \in 1..level |-> IndentUnit]

\* ------------------------------------------------ rich_text_to_markdown
\* A dict is a record of its values plus the set of keys it does not have;
\* d.get(key, default)
LookupStored(dict, key, default) == dict[key]
Lookup(dict, key, default) == IF key \in dict.missing THEN default ELSE dict[key]

TextRun(plain, annotations, href) ==
    [type |-> "text", plain_text |-> plain, expression |-> <<>>,
     annotations |-> annotations, href |-> href, missing |-> {}]
EquationRun(expression) ==
    [type |-> "equation", plain_text |-> <<>>, expression |-> expression,
     annotations |-> {}, href |-> <<>>, missing |-> {}]

Wrap(flag, mark, text) == IF flag THEN <<mark>> \o text \o <<mark>> ELSE text

RunToMarkdownItalicFirst(run) ==
    IF run.type = "equation"
    THEN <<"$">> \o run.expression \o <<"$">>
    ELSE LET t1 == Wrap("italic" \in run.annotations, "*", run.plain_text)
             t2 == Wrap("bold" \in run.annotations, "**", t1)
             t3 == Wrap("code" \in run.annotations, Backtick, t2)
             t4 == Wrap("strikethrough" \in run.annotations, "~~", t3)
         IN IF run.href # <<>>
            THEN <<"[">> \o t4 \o <<"](">> \o run.href \o <<")">>
            ELSE t4

RunToMarkdown(run) ==
    IF run.type = "equation"
    THEN <<"$">> \o run.expression \o <<"$">>
    ELSE LET annotations == Lookup(run, "annotations", {})
             t1 == Wrap("bold" \in annotations, "**", run.plain_text)
             t2 == Wrap("italic" \in annotations, "*", t1)
             t3 == Wrap("code" \in annotations, Backtick, t2)
             t4 == Wrap("strikethrough" \in annotations, "~~", t3)
         IN IF run.href # <<>>
            THEN <<"[">> \o t4 \o <<"](">> \o run.href \o <<")">>
            ELSE t4

RECURSIVE rich_text_to_markdownSpaced(_)
rich_text_to_markdownSpaced(rich_text_array) ==
    IF Len(rich_text_array) = 0 THEN <<>>
    ELSE IF Len(rich_text_array) = 1 THEN RunToMarkdown(Head(rich_text_array))
    ELSE RunToMarkdown(Head(rich_text_array)) \o <<" ">>
         \o rich_text_to_markdownSpaced(Tail(rich_text_array))

RECURSIVE rich_text_to_markdown(_)
rich_text_to_markdown(rich_text_array) ==
    IF Len(rich_text_array) = 0 THEN <<>>
    ELSE RunToMarkdown(Head(rich_text_array))
         \o rich_text_to_markdown(Tail(rich_text_array))

\* rich_text_to_markdown called on A, on B and on the concatenated list A + B.
RichTextCalls ==
    /\ ~rtCalled
    /\ rtOutA' = rich_text_to_markdown(rtA)
    /\ rtOutB' = rich_text_to_markdown(rtB)
    /\ rtOutAB' = rich_text_to_markdown(rtA \o rtB)
    /\ rtCalled' = TRUE
    /\ UNCHANGED <<rtA, rtB, blkParent, blkType, blkMode, blkCells, blkMissing, given,
                   rendered, md, mdRaised, calls, mathVars, convVars, retryVars, twinVars, fetchVars>>

\* ------------------------------------------------------ rich text inputs
MaxRuns == 2
Annotations == {"bold", "italic", "code", "strikethrough"}

\* Text runs with every subset of the annotations, with and without a link;
\* equation runs that also carry annotations and a link.
Runs ==
    [type : {"text"}, plain_text : {<<"x">>}, expression : {<<>>},
     annotations : SUBSET Annotations, href : {<<>>, <<"u">>}, missing : {{}}]
    \cup [type : {"equation"}, plain_text : {<<"x">>}, expression : {<<"e">>},
          annotations : {{}, Annotations}, href : {<<>>, <<"u">>}, missing : {{}}]

RunSeqs(n) == UNION {[1..k -> Runs] : k \in 0..n}

\* No page properties: neither a MathJax nor a mathjax key.
NoProperties ==
    [MathJax |-> [type |-> "none", checkbox |-> FALSE, missing |-> {}],
     mathjax |-> [type |-> "none", checkbox |-> FALSE, missing |-> {}],
     missing |-> {"MathJax", "mathjax"}]

InitMathIdle ==
    /\ content = <<>>
    /\ detectCalled = FALSE
    /\ detected = FALSE
    /\ properties = NoProperties
    /\ page_runs = <<>>
    /\ pageCalled = FALSE
    /\ markdown_content = <<>>
    /\ mathjax = FALSE

InitRichIdle ==
    /\ frames = <<>>
    /\ alone = <<>>
    /\ calls = <<>>
    /\ InitMathIdle
    /\ rtA = <<>>
    /\ rtB = <<>>
    /\ rtCalled = FALSE
    /\ rtOutA = <<>>
    /\ rtOutB = <<>>
    /\ rtOutAB = <<>>

InitRichInputs ==
    /\ frames = <<>>
    /\ alone = <<>>
    /\ calls = <<>>
    /\ InitMathIdle
    /\ rtA \in RunSeqs(MaxRuns)
    /\ rtB \in RunSeqs(MaxRuns - Len(rtA))
    /\ rtCalled = FALSE
    /\ rtOutA = <<>>
    /\ rtOutB = <<>>
    /\ rtOutAB = <<>>

\* --------------------------------------------------- the block tree
NumBlocks == Len(blkType)
BlockIds == 1..NumBlocks

\* The user text of block i: one atom, different for every block.
Text(i) == "t" \o ToString(i)
\* The text of cell j of table row i.
CellText(i, j) == "t" \o ToString(i) \o "c" \o ToString(j)

RECURSIVE Ascending(_)
Ascending(S) ==
    IF S = {} THEN <<>>
    ELSE LET lo == CHOOSE x \in S : \A y \in S : x <= y
         IN <<lo>> \o Ascending(S \ {lo})

\* The children of block p (0: the page) as the server lists them.
ChildIds(p) == Ascending({i \in BlockIds : blkParent[i] = p})

\* The block object of block i as the API returns it.
\* The text run of block i; it has no annotations key when that key is missing.
RunOf(i) ==
    [TextRun(<<Text(i)>>, {}, <<>>) EXCEPT !.missing = blkMissing[i] \cap {"annotations"}]

Block(i) ==
    [id |-> i,
     missing |-> blkMissing[i],
     type |-> blkType[i],
     has_children |-> blkMode[i] # "leaf",
     rich_text |-> <<RunOf(i)>>,
     checked |-> (i % 2 = 0),
     language |-> <<"python">>,
     expression |-> <<Text(i)>>,
     image_type |-> "external",
     url |-> <<"url">>,
     caption |-> <<RunOf(i)>>,
     icon |-> <<"(i)">>,
     cells |-> [j \in 1..blkCells[i] |-> <<TextRun(<<CellText(i, j)>>, {}, <<>>)>>]]

Blocks(ids) == [k \in 1..Len(ids) |-> Block(ids[k])]

\* The fetch_children argument: None, or a callable that for a block id
\* raises (the ids in failing) or returns the list of child blocks.
NoProvider == [given |-> FALSE, failing |-> {}, lists |-> <<>>]
Provider(failing, lists) == [given |-> TRUE, failing |-> failing, lists |-> lists]

\* The provider that serves the block tree.
TreeProvider ==
    IF given
    THEN Provider({i \in BlockIds : blkMode[i] = "fail"}, [i \in BlockIds |-> ChildIds(i)])
    ELSE NoProvider

\* fetch_children(block_id): the child list, or an exception.
FetchChildren(fetch_children, id) ==
    IF id \in fetch_children.failing
    THEN [ok |-> FALSE, blocks |-> <<>>]
    ELSE [ok |-> TRUE, blocks |-> Blocks(fetch_children.lists[id])]

\* --------------------------------------------------- blocks_to_markdown
DetailsOpen == "<details><summary>"
SummaryClose == "</summary>"
DetailsClose == "</details>"

Cells(cells) == Join(<<" | ">>, [k \in 1..Len(cells) |-> rich_text_to_markdown(cells[k])])

\* block_content = block.get(block_type, {}); block_content.get(key, default)
Content(block, key, default) ==
    IF "payload" \in block.missing THEN default ELSE Lookup(block, key, default)

\* The entries the type dispatch appends to markdown for one block.
OwnEntriesEveryTypeAsText(block, level) ==
    <<rich_text_to_markdown(Content(block, "rich_text", <<>>))>>

OwnEntries(block, level) ==
    LET text == rich_text_to_markdown(Content(block, "rich_text", <<>>)) IN
    CASE block.type = "paragraph" -> <<text, <<>>>>
      [] block.type = "heading_1" -> <<<<"# ">> \o text, <<>>>>
      [] block.type = "heading_2" -> <<<<"## ">> \o text, <<>>>>
      [] block.type = "heading_3" -> <<<<"### ">> \o text, <<>>>>
      [] block.type = "bulleted_list_item" -> <<Indent(level) \o <<"- ">> \o text>>
      [] block.type = "numbered_list_item" -> <<Indent(level) \o <<"1. ">> \o text>>
      [] block.type = "to_do" ->
            <<Indent(level)
              \o <<"- ", IF Content(block, "checked", FALSE) THEN "[x]" ELSE "[ ]", " ">>
              \o text>>
      [] block.type = "code" ->
            <<<<Fence>> \o Content(block, "language", <<>>), text, <<Fence>>, <<>>>>
      [] block.type = "equation" ->
            <<<<"$$">>, Content(block, "expression", <<>>), <<"$$">>, <<>>>>
      [] block.type = "image" ->
            <<<<"![">> \o rich_text_to_markdown(Content(block, "caption", <<>>)) \o <<"](">>
                \o (IF "payload" \notin block.missing /\ block.image_type \in {"file", "external"}
                    THEN Content(block, "url", <<>>) ELSE <<>>)
                \o <<")">>,
              <<>>>>
      [] block.type = "quote" ->
            LET lines == SplitLines(text)
            IN [k \in 1..Len(lines) |-> <<"> ">> \o lines[k]] \o <<<<>>>>
      [] block.type = "callout" ->
            <<<<"> ">>
                \o (IF Content(block, "icon", <<>>) # <<>>
                    THEN Content(block, "icon", <<>>) \o <<" ">> ELSE <<>>)
                \o text,
              <<>>>>
      [] block.type = "divider" -> <<<<"---">>, <<>>>>
      [] block.type = "toggle" -> <<<<DetailsOpen>> \o text \o <<SummaryClose>>, <<>>>>
      [] block.type = "table_row" ->
            <<<<"| ">> \o Cells(Content(block, "cells", <<>>)) \o <<" |">>>>
      [] OTHER -> <<>>

\* The GFM table rendered from the fetched children of a table block.
TableEntriesUnfiltered(children) ==
    LET table_rows == children IN
    (IF Len(table_rows) > 0
     THEN LET first_cells == table_rows[1].cells IN
          <<<<"| ">> \o Cells(first_cells) \o <<" |">>,
            <<"| ">> \o Join(<<" | ">>, [k \in 1..Len(first_cells) |-> <<"---">>]) \o <<" |">>>>
          \o [k \in 1..(Len(table_rows) - 1) |->
                <<"| ">> \o Cells(table_rows[k + 1].cells) \o <<" |">>]
     ELSE <<>>)
    \o <<<<>>>>

TableEntries(children) ==
    LET table_rows == SelectSeq(children, LAMBDA b : b.type = "table_row") IN
    (IF Len(table_rows) > 0
     THEN LET first_cells == Content(table_rows[1], "cells", <<>>) IN
          <<<<"| ">> \o Cells(first_cells) \o <<" |">>,
            <<"| ">> \o Join(<<" | ">>, [k \in 1..Len(first_cells) |-> <<"---">>]) \o <<" |">>>>
          \o [k \in 1..(Len(table_rows) - 1) |->
                <<"| ">> \o Cells(Content(table_rows[k + 1], "cells", <<>>)) \o <<" |">>]
     ELSE <<>>)
    \o <<<<>>>>

\* level + 1
ChildLevelSame(level) == level
ChildLevel(level) == level + 1

\* except Exception as e: logger.warning(...): what the failed fetch leaves.
Result(entries, exc) == [entries |-> entries, exc |-> exc]
OnFetchFailureUncaught == Result(<<>>, TRUE)
OnFetchFailure == Result(<<>>, FALSE)

\* The own entries of a block come first, then what its children added.
BlockEntriesChildrenFirst(own, child) == child \o own
BlockEntries(own, child) == own \o child

RECURSIVE blocks_to_markdown(_, _, _)
RECURSIVE RenderBlocks(_, _, _)
RECURSIVE ChildEntries(_, _, _)

\* The 'Handle child blocks' part of one loop iteration.
ChildEntries(block, fetch_children, level) ==
    IF block.has_children /\ fetch_children.given
    THEN IF "id" \in block.missing THEN OnFetchFailure  \* block['id']: KeyError
         ELSE
         LET children == FetchChildren(fetch_children, block.id) IN
         IF ~children.ok THEN OnFetchFailure
         ELSE IF block.type = "table" THEN Result(TableEntries(children.blocks), FALSE)
         ELSE LET child_markdown ==
                      blocks_to_markdown(children.blocks, fetch_children, ChildLevel(level))
              IN IF child_markdown.exc THEN Result(<<>>, FALSE)
                 ELSE Result(
                        (IF Strip(child_markdown.md) # <<>> THEN <<child_markdown.md>> ELSE <<>>)
                        \o (IF block.type = "toggle" THEN <<<<DetailsClose>>, <<>>>> ELSE <<>>),
                        FALSE)
    ELSE IF block.type = "toggle" /\ ~block.has_children
    THEN Result(<<<<DetailsClose>>, <<>>>>, FALSE)
    ELSE Result(<<>>, FALSE)

\* for block in blocks: the entries appended to markdown, or an exception.
RenderBlocks(blocks, fetch_children, level) ==
    IF Len(blocks) = 0 THEN Result(<<>>, FALSE)
    ELSE LET own == OwnEntries(Head(blocks), level)
             child == ChildEntries(Head(blocks), fetch_children, level)
         IN IF child.exc THEN Result(<<>>, TRUE)
            ELSE LET rest == RenderBlocks(Tail(blocks), fetch_children, level)
                 IN Result(BlockEntries(own, child.entries) \o rest.entries, rest.exc)

blocks_to_markdown(blocks, fetch_children, level) ==
    LET r == RenderBlocks(blocks, fetch_children, level)
    IN [md |-> IF r.exc THEN <<>> ELSE Join(<<NL>>, r.entries), exc |-> r.exc]

RECURSIVE ProviderCallsTopOnly(_, _)
ProviderCallsTopOnly(blocks, fetch_children) ==
    IF Len(blocks) = 0 THEN <<>>
    ELSE (IF Head(blocks).has_children /\ fetch_children.given
          THEN <<Head(blocks).id>> ELSE <<>>)
         \o ProviderCallsTopOnly(Tail(blocks), fetch_children)

RECURSIVE ProviderCalls(_, _)
\* The fetch_children(block['id']) calls one blocks_to_markdown run makes,
\* its recursive runs included, in the order they are made.
ProviderCalls(blocks, fetch_children) ==
    IF Len(blocks) = 0 THEN <<>>
    ELSE LET block == Head(blocks)
             here ==
               IF block.has_children /\ fetch_children.given /\ "id" \notin block.missing
               THEN LET children == FetchChildren(fetch_children, block.id) IN
                    <<block.id>>
                    \o (IF children.ok /\ block.type # "table"
                        THEN ProviderCalls(children.blocks, fetch_children)
                        ELSE <<>>)
               ELSE <<>>
         IN here \o ProviderCalls(Tail(blocks), fetch_children)

\* blocks_to_markdown(blocks, fetch_children) on the page's top-level blocks.
Render ==
    /\ ~rendered
    /\ LET r == blocks_to_markdown(Blocks(ChildIds(0)), TreeProvider, 0) IN
         /\ md' = r.md
         /\ mdRaised' = r.exc
    /\ calls' = ProviderCalls(Blocks(ChildIds(0)), TreeProvider)
    /\ rendered' = TRUE
    /\ UNCHANGED <<blkParent, blkType, blkMode, blkCells, blkMissing, given, richVars, convVars,
                   mathVars, retryVars, twinVars, fetchVars>>

\* ------------------------------------------------------- render inputs
BlockTypes == {"paragraph", "bulleted_list_item", "numbered_list_item", "to_do", "toggle"}

RECURSIVE IsAncestor(_, _, _)
\* a is a proper ancestor of block i under the parent map par
IsAncestor(par, a, i) ==
    IF i = 0 \/ par[i] = 0 THEN FALSE
    ELSE par[i] = a \/ IsAncestor(par, a, par[i])

\* Blocks are numbered in document order (pre-order of the tree).
DocumentOrder(par) ==
    \A i \in 1..Len(par) :
        \/ par[i] = 0
        \/ par[i] = i - 1
        \/ (i > 1 /\ IsAncestor(par, par[i], i - 1))

HasKids(par, p) == \E i \in 1..Len(par) : par[i] = p

InitRenderIdle ==
    /\ blkParent = <<>>
    /\ blkType = <<>>
    /\ blkMode = <<>>
    /\ blkCells = <<>>
    /\ blkMissing = <<>>
    /\ given = FALSE
    /\ rendered = FALSE
    /\ md = <<>>
    /\ mdRaised = FALSE
    /\ InitRichIdle

InitRenderInputs ==
    /\ \E n \in 0..MaxBlocks :
         /\ blkParent \in [1..n -> 0..(MaxBlocks - 1)]
         /\ \A i \in 1..n : blkParent[i] < i
         /\ DocumentOrder(blkParent)
         /\ blkType \in [1..n -> BlockTypes]
         /\ blkMode \in [1..n -> {"leaf", "ok", "fail"}]
         /\ \A i \in 1..n : HasKids(blkParent, i) => blkMode[i] # "leaf"
         /\ blkCells = [i \in 1..n |-> 1]
         /\ blkMissing = [i \in 1..n |-> {}]
    /\ given \in BOOLEAN
    /\ given = FALSE => \A i \in 1..Len(blkParent) : blkParent[i] = 0 /\ blkMode[i] # "fail"
    /\ rendered = FALSE
    /\ md = <<>>
    /\ mdRaised = FALSE
    /\ InitRichIdle

InitRetry ==
    /\ rpc = "idle"
    /\ attempt = 0
    /\ last_exception = NoException
    /\ response = NoResponse
    /\ raised = NoException
    /\ outcomes = <<>>
    /\ sleeps = <<>>
    /\ t_rpc = "idle"
    /\ t_attempt = 0
    /\ t_last_exception = NoException
    /\ t_outcomes = <<>>
    /\ t_sleeps = <<>>

InitFetch ==
    /\ fpc = "start"
    /\ srvN \in 0..MaxChildren
    /\ srvP \in 1..MaxPageSize
    /\ all_blocks = <<>>
    /\ has_more = TRUE
    /\ start_cursor = NoCursor
    /\ params = {}
    /\ requests = <<>>
    /\ responses = <<>>
    /\ fresult = <<>>
    /\ fraised = NoException

InitFetchIdle ==
    /\ fpc = "start"
    /\ srvN = 0
    /\ srvP = 1
    /\ all_blocks = <<>>
    /\ has_more = TRUE
    /\ start_cursor = NoCursor
    /\ params = {}
    /\ requests = <<>>
    /\ responses = <<>>
    /\ fresult = <<>>
    /\ fraised = NoException

Init == InitRetry /\ InitFetch /\ InitRenderIdle

Next ==
    \/ FetchCall
    \/ Attempt
    \/ SleepReturns
    \/ FetchBadJSON
    \/ FetchMore
    \/ FetchLast
    \/ FetchPropagate

Spec == Init /\ [][Next]_vars

InitRender == InitRetry /\ InitFetchIdle /\ InitRenderInputs

NextRender == Render

SpecRender == InitRender /\ [][NextRender]_vars

\* The program keeps running: a step that can be taken is eventually taken.
SpecFair == Init /\ [][Next]_vars /\ WF_vars(Next)

InitRenderNoCall ==
    /\ blkParent = <<>>
    /\ blkType = <<>>
    /\ blkMode = <<>>
    /\ blkCells = <<>>
    /\ blkMissing = <<>>
    /\ given = FALSE
    /\ rendered = FALSE
    /\ md = <<>>
    /\ mdRaised = FALSE

\* A page with one table: top-level paragraphs around it, and below it
\* table rows of 0..MaxCells cells mixed with children of another type.
MaxTableBlocks == 5
MaxCells == 2

InitTableInputs ==
    /\ \E n \in 1..MaxTableBlocks, tix \in 1..2 :
         /\ tix <= n
         /\ blkType \in [1..n -> {"paragraph", "table", "table_row"}]
         /\ \A i \in 1..n : blkType[i] = "table" <=> i = tix
         /\ blkParent \in [1..n -> {0, tix}]
         /\ \A i \in 1..n : i <= tix => blkParent[i] = 0
         /\ DocumentOrder(blkParent)
         /\ \A i \in 1..n : blkType[i] = "table_row" => blkParent[i] = tix
         /\ blkMode = [i \in 1..n |-> IF i = tix THEN "ok" ELSE "leaf"]
         /\ blkCells \in [1..n -> 0..MaxCells]
         /\ \A i \in 1..n : blkType[i] # "table_row" => blkCells[i] = 0
         /\ blkMissing = [i \in 1..n |-> {}]
    /\ given = TRUE
    /\ rendered = FALSE
    /\ md = <<>>
    /\ mdRaised = FALSE
    /\ InitRichIdle

InitTable == InitRetry /\ InitFetchIdle /\ InitTableInputs

NextTable == Render

SpecTable == InitTable /\ [][NextTable]_vars

\* A page with one block of any type that lacks any subset of its expected
\* keys, among well-formed paragraphs (siblings and children of that block).
MaxShapeBlocks == 3

TextTypes ==
    {"paragraph", "heading_1", "heading_2", "heading_3", "bulleted_list_item",
     "numbered_list_item", "to_do", "code", "quote", "callout", "toggle"}
AllTypes == TextTypes \cup {"equation", "image", "divider", "table", "table_row"}

ExpectedKeys(type) ==
    {"payload", "id"}
    \cup (IF type \in TextTypes THEN {"rich_text", "annotations"} ELSE {})
    \cup (IF type = "to_do" THEN {"checked"} ELSE {})
    \cup (IF type = "code" THEN {"language"} ELSE {})
    \cup (IF type = "equation" THEN {"expression"} ELSE {})
    \cup (IF type = "image" THEN {"caption", "annotations", "url"} ELSE {})
    \cup (IF type = "callout" THEN {"icon"} ELSE {})
    \cup (IF type = "table_row" THEN {"cells"} ELSE {})

InitShapeInputs ==
    /\ \E n \in 1..MaxShapeBlocks, bad \in 1..2 :
         /\ bad <= n
         /\ \E type \in AllTypes :
              /\ blkType = [i \in 1..n |-> IF i = bad THEN type ELSE "paragraph"]
              /\ \E missing \in SUBSET ExpectedKeys(type) :
                   blkMissing = [i \in 1..n |-> IF i = bad THEN missing ELSE {}]
         /\ blkParent \in [1..n -> {0, bad}]
         /\ \A i \in 1..n : i <= bad => blkParent[i] = 0
         /\ DocumentOrder(blkParent)
         /\ blkMode \in [1..n -> {"leaf", "ok"}]
         /\ \A i \in 1..n : (HasKids(blkParent, i) => blkMode[i] = "ok")
                              /\ (i # bad => blkMode[i] = "leaf")
         /\ blkCells = [i \in 1..n |-> IF blkType[i] = "table_row" THEN 2 ELSE 0]
    /\ given = TRUE
    /\ rendered = FALSE
    /\ md = <<>>
    /\ mdRaised = FALSE
    /\ InitRichIdle

InitShape == InitRetry /\ InitFetchIdle /\ InitShapeInputs

NextShape == Render

SpecShape == InitShape /\ [][NextShape]_vars

\* --------------------------------------------------- fetch_notion_page
\* The conversion runs, and the storage of the locals of a run: every call
\* of fetch_notion_page, _fetch_all_blocks, request_with_retry and
\* blocks_to_markdown has its own frame.
Procs == {1, 2}
SlotShared(p) == 1
Slot(p) == p

\* What an attempt of a conversion run can end in.
ConvOutcomes ==
    {[kind |-> "Timeout", status |-> 0],
     [kind |-> "status", status |-> 200],
     [kind |-> "status", status |-> 404],
     [kind |-> "status", status |-> 503]}

PagesUrl == <<"pages">>
ChildrenUrl(id) == <<"blocks", id, "children">>
Request(url, query) == [url |-> url, params |-> query]

\* raise NotionAPIError(...) from e
NotionAPIError == Exc("NotionAPIError", 0)

\* request_with_retry(...) is entered: a fresh loop, one more request made.
StartCall(cell, url) ==
    [cell EXCEPT !.rpc = "attempt", !.attempt = 0, !.last_exception = NoException,
                 !.requests = Append(@, Request(url, BuildParams(cell.start_cursor)))]

\* _fetch_all_blocks(block_id, headers) is entered (0: the page itself).
BeginFetch(cell, id) ==
    StartCall([cell EXCEPT !.target = id, !.all_blocks = <<>>, !.start_cursor = NoCursor],
              ChildrenUrl(id))

\* The locals of a run at its first request, the one for the page properties.
NewCell ==
    StartCall([pc |-> "props", rpc |-> "attempt", attempt |-> 0,
               last_exception |-> NoException,
               target |-> 0, all_blocks |-> <<>>, start_cursor |-> NoCursor,
               fetched |-> [i \in 0..NumBlocks |-> "none"],
               lists |-> [i \in 0..NumBlocks |-> <<>>],
               requests |-> <<>>,
               result |-> "none", raised |-> NoException, cause |-> NoException,
               markdown |-> <<>>],
              PagesUrl)

\* The blocks whose children blocks_to_markdown asks for next: listed by a
\* fetch that succeeded, has_children true, not asked for yet.
Pending(cell) ==
    {i \in BlockIds :
        /\ blkMode[i] # "leaf"
        /\ cell.fetched[i] = "none"
        /\ cell.fetched[blkParent[i]] = "ok"
        /\ \E k \in 1..Len(cell.lists[blkParent[i]]) : cell.lists[blkParent[i]][k] = i}

\* blocks_to_markdown has every child list it asked for: it returns, and
\* fetch_notion_page returns the Markdown.
Finish(cell) ==
    LET r == blocks_to_markdown(
                 Blocks(cell.lists[0]),
                 Provider({i \in BlockIds : cell.fetched[i] = "fail"},
                          [i \in BlockIds |-> cell.lists[i]]),
                 0)
    IN [cell EXCEPT !.pc = "done",
                    !.result = IF r.exc THEN "raised" ELSE "returned",
                    !.raised = IF r.exc THEN Exc("Exception", 0) ELSE NoException,
                    !.markdown = r.md]

AfterFetchLastFirst(cell) ==
    IF Pending(cell) = {} THEN Finish(cell)
    ELSE BeginFetch(cell, CHOOSE i \in Pending(cell) : \A j \in Pending(cell) : i >= j)

\* A _fetch_all_blocks call has ended: the rendering goes on to the next
\* block with children, or ends.
AfterFetch(cell) ==
    IF Pending(cell) = {} THEN Finish(cell)
    ELSE BeginFetch(cell, CHOOSE i \in Pending(cell) : \A j \in Pending(cell) : i <= j)

\* request_with_retry raised exc.
OnCallRaised(cell, exc) ==
    IF cell.pc = "props"
    THEN [cell EXCEPT !.pc = "done", !.result = "raised",
                      !.raised = NotionAPIError, !.cause = exc]
    ELSE IF cell.target = 0
    THEN [cell EXCEPT !.pc = "done", !.result = "raised", !.raised = exc]
    ELSE AfterFetch([cell EXCEPT !.fetched[cell.target] = "fail"])

\* request_with_retry returned the response.
OnCallReturned(cell) ==
    IF cell.pc = "props"
    THEN BeginFetch([cell EXCEPT !.pc = "blocks"], 0)
    ELSE LET ids == ChildIds(cell.target)
             data == ServerPage(Len(ids), srvP, Cursor(BuildParams(cell.start_cursor)))
             all == Extend(cell.all_blocks,
                           [k \in 1..Len(data.results) |-> ids[data.results[k]]])
             next == [cell EXCEPT !.all_blocks = all, !.start_cursor = data.next_cursor]
         IN IF data.has_more
            THEN StartCall(next, ChildrenUrl(cell.target))
            ELSE AfterFetch([next EXCEPT !.lists[cell.target] = all,
                                         !.fetched[cell.target] = "ok"])

CanAttempt(cell) == cell.pc # "done" /\ cell.rpc = "attempt"
CanWake(cell) == cell.pc # "done" /\ cell.rpc = "sleep"

\* One HTTP attempt of the run and all the run does until its next attempt
\* or sleep.
OnConvAttempt(cell, o) ==
    LET h == HandleOutcome(o, cell.attempt, cell.last_exception) IN
    IF ~CanAttempt(cell) THEN cell
    ELSE IF h.rpc = "sleep" THEN [cell EXCEPT !.rpc = "sleep", !.last_exception = h.last]
    ELSE IF h.rpc = "raised" THEN OnCallRaised(cell, h.raised)
    ELSE OnCallReturned(cell)

\* time.sleep returns in the run.
OnConvWake(cell) ==
    LET n == AfterSleep(cell.attempt, cell.last_exception) IN
    IF ~CanWake(cell) THEN cell
    ELSE IF n.rpc = "attempt" THEN [cell EXCEPT !.rpc = "attempt", !.attempt = n.attempt]
    ELSE OnCallRaised(cell, n.raised)

ConvUnchanged ==
    UNCHANGED <<retryVars, twinVars, fetchVars, richVars, blkParent, blkType, blkMode,
                blkCells, blkMissing, given, rendered, md, mdRaised, calls, mathVars>>

ConvAttempt(p) ==
    /\ CanAttempt(frames[Slot(p)])
    /\ \E o \in ConvOutcomes :
         /\ frames' = [frames EXCEPT ![Slot(p)] = OnConvAttempt(@, o)]
         /\ alone' = [alone EXCEPT ![p] = OnConvAttempt(@, o)]
    /\ ConvUnchanged

ConvWake(p) ==
    /\ CanWake(frames[Slot(p)])
    /\ frames' = [frames EXCEPT ![Slot(p)] = OnConvWake(@)]
    /\ alone' = [alone EXCEPT ![p] = OnConvWake(@)]
    /\ ConvUnchanged

\* The page the runs convert: paragraphs, nested or not.
MaxConvBlocks == 3

InitConvInputs ==
    /\ \E n \in 1..MaxConvBlocks :
         /\ blkParent \in [1..n -> 0..(MaxConvBlocks - 1)]
         /\ \A i \in 1..n : blkParent[i] < i
         /\ DocumentOrder(blkParent)
         /\ blkType = [i \in 1..n |-> "paragraph"]
         /\ blkMode = [i \in 1..n |-> IF HasKids(blkParent, i) THEN "ok" ELSE "leaf"]
         /\ blkCells = [i \in 1..n |-> 0]
         /\ blkMissing = [i \in 1..n |-> {}]
    /\ given = TRUE
    /\ rendered = FALSE
    /\ md = <<>>
    /\ mdRaised = FALSE
    /\ rtA = <<>>
    /\ rtB = <<>>
    /\ rtCalled = FALSE
    /\ rtOutA = <<>>
    /\ rtOutB = <<>>
    /\ rtOutAB = <<>>
    /\ calls = <<>>
    /\ InitMathIdle
    /\ frames = [s \in Procs |-> NewCell]
    /\ alone = [p \in Procs |-> NewCell]

InitConv == InitRetry /\ InitFetchIdle /\ InitConvInputs

NextConv ==
    \/ \E p \in Procs : ConvAttempt(p)
    \/ \E p \in Procs : ConvWake(p)

SpecConv == InitConv /\ [][NextConv]_vars

\* ---------------------------------------------------- _has_math_content
\* The characters of a token of the rendered Markdown.
Chars(tok) ==
    CASE tok = "](" -> <<"]", "(">>
      [] tok = "**" -> <<"*", "*">>
      [] tok = "~~" -> <<"~", "~">>
      [] tok = "$$" -> <<"$", "$">>
      [] OTHER -> <<tok>>

RECURSIVE Flatten(_)
\* The string as a sequence of characters.
Flatten(toks) ==
    IF Len(toks) = 0 THEN <<>> ELSE Chars(Head(toks)) \o Flatten(Tail(toks))

\* \s
IsWhitespace(ch) == ch \in {" ", NL}

\* re.search(r'\$\$.+?\$\$', content, re.DOTALL)
DisplayMath(text) ==
    \E i \in 1..Len(text), j \in 1..Len(text) :
        /\ j >= i + 3 /\ j + 1 <= Len(text)
        /\ text[i] = "$" /\ text[i + 1] = "$"
        /\ text[j] = "$" /\ text[j + 1] = "$"

\* re.search(r'(?<!\$)\$(?!\s)(?!\$).+?(?<!\s)(?<!\$)\$(?!\$)', content)
InlineMath(text) ==
    \E i \in 1..Len(text), j \in 1..Len(text) :
        /\ j >= i + 2
        /\ text[i] = "$"
        /\ (i = 1 \/ text[i - 1] # "$")
        /\ ~IsWhitespace(text[i + 1]) /\ text[i + 1] # "$"
        /\ \A k \in (i + 1)..(j - 1) : text[k] # NL
        /\ ~IsWhitespace(text[j - 1]) /\ text[j - 1] # "$"
        /\ text[j] = "$"
        /\ (j = Len(text) \/ text[j + 1] # "$")

\* '\\[' in content
BracketMath(text) ==
    \E i \in 1..(Len(text) - 1) : text[i] = "\\" /\ text[i + 1] = "["

_has_math_content(text) == DisplayMath(text) \/ InlineMath(text) \/ BracketMath(text)

\* _has_math_content(content) is called.
Detect ==
    /\ ~detectCalled
    /\ detected' = _has_math_content(content)
    /\ detectCalled' = TRUE
    /\ UNCHANGED <<content, properties, page_runs, pageCalled, markdown_content, mathjax,
                   blkParent, blkType, blkMode, blkCells, blkMissing, given, rendered, md,
                   mdRaised, calls, richVars, convVars, retryVars, twinVars, fetchVars>>

\* The page all_blocks of fetch_notion_page holds: one paragraph.
PageBlocks(rich_text) ==
    <<[id |-> 1, missing |-> {}, type |-> "paragraph", has_children |-> FALSE,
       rich_text |-> rich_text, checked |-> FALSE, language |-> <<>>,
       expression |-> <<>>, image_type |-> "external", url |-> <<>>,
       caption |-> <<>>, icon |-> <<>>, cells |-> <<>>]>>

mathjaxDetectionWins(props, markdown) ==
    LET math_property == IF "MathJax" \notin props.missing THEN props.MathJax ELSE props.mathjax
        mathjax_from_property ==
            /\ props.missing # {"MathJax", "mathjax"}
            /\ Lookup(math_property, "type", "None") = "checkbox"
    IN \/ (mathjax_from_property /\ Lookup(math_property, "checkbox", FALSE))
       \/ _has_math_content(markdown)

\* The mathjax value fetch_notion_page returns for the page properties and
\* the rendered Markdown.
mathjaxFlag(props, markdown) ==
    LET \* properties.get('MathJax') or properties.get('mathjax')
        math_property == IF "MathJax" \notin props.missing THEN props.MathJax ELSE props.mathjax
        mathjax_from_property ==
            /\ props.missing # {"MathJax", "mathjax"}
            /\ Lookup(math_property, "type", "None") = "checkbox"
        from_checkbox == mathjax_from_property /\ Lookup(math_property, "checkbox", FALSE)
    IN IF ~mathjax_from_property /\ _has_math_content(markdown) THEN TRUE ELSE from_checkbox

\* fetch_notion_page from the properties it has read to its return.
FetchPage ==
    /\ ~pageCalled
    /\ LET r == blocks_to_markdown(PageBlocks(page_runs), NoProvider, 0) IN
         /\ markdown_content' = Flatten(r.md)
         /\ mathjax' = mathjaxFlag(properties, Flatten(r.md))
    /\ pageCalled' = TRUE
    /\ UNCHANGED <<content, detectCalled, detected, properties, page_runs,
                   blkParent, blkType, blkMode, blkCells, blkMissing, given, rendered, md,
                   mdRaised, calls, richVars, convVars, retryVars, twinVars, fetchVars>>

MaxTextLen == 5
MaxPageRuns == 2

\* Strings of prices, words, spaces and line breaks.
TextChars == {"$", "1", " ", "-", NL}
Strings(alphabet, n) == UNION {[1..k -> alphabet] : k \in 0..n}

\* A property value of the page: a checkbox, set or not, a checkbox without
\* its value, or a property of another type.
PropertyValues ==
    {[type |-> "checkbox", checkbox |-> TRUE, missing |-> {}],
     [type |-> "checkbox", checkbox |-> FALSE, missing |-> {}],
     [type |-> "checkbox", checkbox |-> FALSE, missing |-> {"checkbox"}],
     [type |-> "rich_text", checkbox |-> FALSE, missing |-> {"checkbox"}]}

PropertySets ==
    {ps \in [MathJax : PropertyValues \cup {NoProperties.MathJax},
             mathjax : PropertyValues \cup {NoProperties.mathjax},
             missing : SUBSET {"MathJax", "mathjax"}] :
        /\ "MathJax" \in ps.missing <=> ps.MathJax = NoProperties.MathJax
        /\ "mathjax" \in ps.missing <=> ps.mathjax = NoProperties.mathjax}

\* The runs of the page's paragraph: plain or bold text, linked or not, of
\* letters, backslashes, brackets and dollar signs, and inline equations.
PageRuns ==
    {TextRun(t, a, h) : t \in {<<"a">>, <<"\\">>, <<"$">>, <<"\\", "[">>},
                        a \in {{}, {"bold"}}, h \in {<<>>, <<"u">>}}
    \cup {EquationRun(<<"e">>)}

InitMathInputs ==
    /\ \/ /\ content \in Strings(TextChars, MaxTextLen)
          /\ properties = NoProperties
          /\ page_runs = <<>>
       \/ /\ content = <<>>
          /\ properties \in PropertySets
          /\ page_runs \in UNION {[1..k -> PageRuns] : k \in 0..MaxPageRuns}
    /\ detectCalled = FALSE
    /\ detected = FALSE
    /\ pageCalled = FALSE
    /\ markdown_content = <<>>
    /\ mathjax = FALSE
    /\ blkParent = <<>>
    /\ blkType = <<>>
    /\ blkMode = <<>>
    /\ blkCells = <<>>
    /\ blkMissing = <<>>
    /\ given = FALSE
    /\ rendered = FALSE
    /\ md = <<>>
    /\ mdRaised = FALSE
    /\ calls = <<>>
    /\ frames = <<>>
    /\ alone = <<>>
    /\ rtA = <<>>
    /\ rtB = <<>>
    /\ rtCalled = FALSE
    /\ rtOutA = <<>>
    /\ rtOutB = <<>>
    /\ rtOutAB = <<>>

InitMath == InitRetry /\ InitFetchIdle /\ InitMathInputs

NextMath ==
    \/ Detect
    \/ FetchPage

SpecMath == InitMath /\ [][NextMath]_vars

\* One conversion run alone, on a page large enough for two sibling subtrees.
MaxOrderBlocks == 4

InitOrderInputs ==
    /\ \E n \in 1..MaxOrderBlocks :
         /\ blkParent \in [1..n -> 0..(MaxOrderBlocks - 1)]
         /\ \A i \in 1..n : blkParent[i] < i
         /\ DocumentOrder(blkParent)
         /\ blkType = [i \in 1..n |-> "paragraph"]
         /\ blkMode = [i \in 1..n |-> IF HasKids(blkParent, i) THEN "ok" ELSE "leaf"]
         /\ blkCells = [i \in 1..n |-> 0]
         /\ blkMissing = [i \in 1..n |-> {}]
    /\ given = TRUE
    /\ rendered = FALSE
    /\ md = <<>>
    /\ mdRaised = FALSE
    /\ rtA = <<>>
    /\ rtB = <<>>
    /\ rtCalled = FALSE
    /\ rtOutA = <<>>
    /\ rtOutB = <<>>
    /\ rtOutAB = <<>>
    /\ calls = <<>>
    /\ InitMathIdle
    /\ frames = [s \in Procs |-> NewCell]
    /\ alone = [p \in Procs |-> NewCell]

InitOrder == InitRetry /\ InitFetchIdle /\ InitOrderInputs

NextOrder ==
    \/ ConvAttempt(1)
    \/ ConvWake(1)

SpecOrder == InitOrder /\ [][NextOrder]_vars

\* Trees of list items, tables and blocks of a type the dispatch does not
\* know ("unsupported") or of no type at all (block.get('type') is None).
MaxTypeBlocks == 3
UnknownTypes == {"unsupported", "None"}

InitTypeInputs ==
    /\ \E n \in 0..MaxTypeBlocks :
         /\ blkParent \in [1..n -> 0..(MaxTypeBlocks - 1)]
         /\ \A i \in 1..n : blkParent[i] < i
         /\ DocumentOrder(blkParent)
         /\ blkType \in [1..n -> {"bulleted_list_item", "table"} \cup UnknownTypes]
         /\ blkMode \in [1..n -> {"leaf", "ok", "fail"}]
         /\ \A i \in 1..n : HasKids(blkParent, i) => blkMode[i] # "leaf"
         /\ blkCells = [i \in 1..n |-> 0]
         /\ blkMissing = [i \in 1..n |-> {}]
    /\ given \in BOOLEAN
    /\ rendered = FALSE
    /\ md = <<>>
    /\ mdRaised = FALSE
    /\ InitRichIdle

InitTypes == InitRetry /\ InitFetchIdle /\ InitTypeInputs

NextTypes == Render

SpecTypes == InitTypes /\ [][NextTypes]_vars

InitRich == InitRetry /\ InitFetchIdle /\ InitRenderNoCall /\ InitRichInputs

NextRich == RichTextCalls

SpecRich == InitRich /\ [][NextRich]_vars

\* ======================================================= request claims
IsTimeout(o) == o.kind = "Timeout"
Is4xx(o) == o.kind = "status" /\ o.status >= 400 /\ o.status <= 499
Is5xx(o) == o.kind = "status" /\ o.status >= 500

\* C1: when every attempt of a request_with_retry call times out, at most
\* MAX_RETRIES attempts are made, after the MAX_RETRIES-th no attempt follows
\* (the call is in its last sleep or has raised), the call never returns a
\* response, and when it ends it has made exactly MAX_RETRIES attempts and
\* raised the timeout error.
C1_AlwaysTimeoutRaisesAfterMaxRetries ==
    (\A i \in 1..Len(outcomes) : IsTimeout(outcomes[i])) =>
        /\ Len(outcomes) <= MAX_RETRIES
        /\ rpc # "returned"
        /\ (Len(outcomes) = MAX_RETRIES => rpc \in {"sleep", "raised"})
        /\ (rpc = "raised" => Len(outcomes) = MAX_RETRIES /\ raised = TimeoutExc)

C1_Witness ==
    /\ rpc = "raised"
    /\ Len(outcomes) = MAX_RETRIES
    /\ \A i \in 1..Len(outcomes) : IsTimeout(outcomes[i])

\* C2: an attempt (first or later) that gets a 4xx response is the last
\* attempt of its call: the call has raised that HTTP error, and it slept only
\* after the earlier attempts, not after this one. A 4xx on the first attempt
\* therefore leaves exactly one attempt.
C2_ClientErrorRaisedImmediately ==
    \A i \in 1..Len(outcomes) :
        Is4xx(outcomes[i]) =>
            /\ i = Len(outcomes)
            /\ rpc = "raised"
            /\ raised = HTTPError(outcomes[i].status)
            /\ Len(sleeps) = i - 1

C2_Witness ==
    /\ Len(outcomes) = 2
    /\ IsTimeout(outcomes[1])
    /\ outcomes[2] = [kind |-> "status", status |-> 429]
    /\ rpc = "raised"
    /\ fpc = "raised"

\* C3: two runs of one call that see the same outcomes, except that connection
\* failures and 5xx responses are exchanged at will, agree at every step on the
\* number of attempts, on the sequence of backoff waits and on the control
\* point, hence on the kind of final outcome (returned or raised).
C3_ServerErrorLikeConnectionFailure ==
    /\ Len(t_outcomes) = Len(outcomes)
    /\ t_attempt = attempt
    /\ t_sleeps = sleeps
    /\ t_rpc = rpc

C3_Witness ==
    /\ rpc = "raised"
    /\ Len(outcomes) = MAX_RETRIES
    /\ outcomes[1].kind = "ConnectionError" /\ Is5xx(t_outcomes[1])
    /\ Is5xx(outcomes[2]) /\ t_outcomes[2].kind = "ConnectionError"
    /\ Is5xx(outcomes[3]) /\ Is5xx(t_outcomes[3])

\* ========================================================= fetch claims
\* C4: when _fetch_all_blocks returns, it returns exactly the server's srvN
\* children, each once, in the server's order.
C4_ReturnsAllBlocksInOrder ==
    fpc = "returned" => fresult = Range(1, srvN)

C4_Witness ==
    /\ fpc = "returned"
    /\ Len(requests) >= 2
    /\ srvN % srvP # 0
    /\ Len(fresult) = srvN

\* C5: the first request carries no start_cursor; every later request follows a
\* response with has_more = true and carries exactly its next_cursor.
C5_CursorChain ==
    \A i \in 1..Len(requests) :
        IF i = 1
        THEN requests[i] = {}
        ELSE /\ i - 1 <= Len(responses)
             /\ responses[i - 1].has_more
             /\ requests[i] = {<<"start_cursor", responses[i - 1].next_cursor>>}

C5_Witness ==
    /\ Len(requests) >= 3
    /\ Len(responses) >= 3

\* C6: once a page request has failed with an exception raised by
\* request_with_retry, _fetch_all_blocks has raised that same exception and
\* has returned nothing, whatever it had accumulated.
C6_RequestErrorPropagatesNoPartialResult ==
    (rpc = "raised" /\ fpc # "waiting") =>
        /\ fpc = "raised"
        /\ fraised = raised
        /\ fresult = <<>>

C6_Witness ==
    /\ rpc = "raised"
    /\ fpc = "raised"
    /\ Len(all_blocks) >= 2
    /\ Len(requests) >= 2

\* ======================================================== render claims
Count(tok, str) == Cardinality({k \in 1..Len(str) : str[k] = tok})

\* Block i's text is in the returned Markdown, and where.
Present(i) == \E k \in 1..Len(md) : md[k] = Text(i)
Pos(i) == CHOOSE k \in 1..Len(md) : md[k] = Text(i)

RECURSIVE Reached(_)
\* Block i is top-level, or the child fetch of each of its ancestors succeeded.
Reached(i) ==
    \/ blkParent[i] = 0
    \/ /\ given
       /\ blkMode[blkParent[i]] = "ok"
       /\ Reached(blkParent[i])

RECURSIVE Depth(_)
Depth(i) == IF blkParent[i] = 0 THEN 0 ELSE 1 + Depth(blkParent[i])

\* C7: in every returned Markdown the toggle markers are balanced: as many
\* '</details>' as '<details><summary>', never a close before its open, and
\* every rendered toggle has a '</details>' after its summary and after all of
\* its rendered descendants.
C7_EveryToggleClosed ==
    rendered =>
        /\ Count(DetailsOpen, md) = Count(DetailsClose, md)
        /\ \A k \in 1..Len(md) :
               Count(DetailsClose, SubSeq(md, 1, k)) <= Count(DetailsOpen, SubSeq(md, 1, k))
        /\ \A i \in BlockIds :
               (blkType[i] = "toggle" /\ Present(i)) =>
                   \E c \in (Pos(i) + 1)..Len(md) :
                       /\ md[c] = DetailsClose
                       /\ \A d \in BlockIds :
                              (IsAncestor(blkParent, i, d) /\ Present(d)) => Pos(d) < c

\* C8: when the child fetch of a reached block f fails, blocks_to_markdown
\* returns (does not raise), f's own text is in the output, no block below f
\* is, and every reached block after f in document order is.
C8_FailedFetchSkipsOnlyTheSubtree ==
    rendered =>
        \A f \in BlockIds :
            (given /\ Reached(f) /\ blkMode[f] = "fail") =>
                /\ ~mdRaised
                /\ Present(f)
                /\ \A d \in BlockIds : IsAncestor(blkParent, f, d) => ~Present(d)
                /\ \A j \in BlockIds : (j > f /\ Reached(j)) => Present(j)

C8_Witness ==
    /\ rendered
    /\ given
    /\ \E f, d, j \in BlockIds :
          /\ blkMode[f] = "fail" /\ Reached(f)
          /\ blkParent[d] = f
          /\ j > d /\ Reached(j)
          /\ Present(f) /\ ~Present(d) /\ Present(j)

\* C9: in the returned Markdown, of two siblings the earlier one and all that
\* is rendered below it come before the later one, and a block's own text
\* comes before the text of each of its children, at every depth.
C9_SiblingOrderAndParentFirst ==
    rendered =>
        \A i, j \in BlockIds :
            (Present(i) /\ Present(j)) =>
                /\ (blkParent[i] = blkParent[j] /\ i < j) =>
                       /\ Pos(i) < Pos(j)
                       /\ \A d \in BlockIds :
                              (IsAncestor(blkParent, i, d) /\ Present(d)) => Pos(d) < Pos(j)
                /\ blkParent[j] = i => Pos(i) < Pos(j)

C9_Witness ==
    /\ rendered
    /\ \E p, c1, c2 \in BlockIds :
          /\ blkParent[c1] = p /\ blkParent[c2] = p /\ c1 < c2
          /\ Present(p) /\ Present(c1) /\ Present(c2)
          /\ Pos(p) < Pos(c1) /\ Pos(c1) < Pos(c2)

\* The tokens of the output line that holds block i's text, up to that text.
LineStart(k) == CHOOSE j \in 0..(k - 1) :
                    /\ j = 0 \/ md[j] = NL
                    /\ \A m \in (j + 1)..(k - 1) : md[m] # NL
LinePrefix(i) == SubSeq(md, LineStart(Pos(i)) + 1, Pos(i) - 1)

RECURSIVE LeadingSpaces(_)
\* number of spaces a line starts with (an indent unit is two spaces)
LeadingSpaces(line) ==
    IF Len(line) > 0 /\ line[1] = IndentUnit THEN 2 + LeadingSpaces(Tail(line)) ELSE 0

ListTypes == {"bulleted_list_item", "numbered_list_item", "to_do"}

\* C10: every rendered bulleted, numbered or to-do item at tree depth d is on a
\* line that starts with exactly 2*d spaces followed by its list marker,
\* whatever the types of its ancestors (so each child render ran at the
\* level of its parent plus one, from 0 at the top).
C10_IndentIsTwiceDepth ==
    rendered =>
        \A i \in BlockIds :
            (blkType[i] \in ListTypes /\ Present(i)) =>
                /\ LeadingSpaces(LinePrefix(i)) = 2 * Depth(i)
                /\ Len(LinePrefix(i)) > Depth(i)
                /\ LinePrefix(i)[Depth(i) + 1] \in {"- ", "1. "}

C10_Witness ==
    /\ rendered
    /\ \E i \in BlockIds :
          /\ blkType[i] = "to_do" /\ Present(i)
          /\ Depth(i) = 2
          /\ blkType[blkParent[i]] = "toggle"
          /\ blkType[blkParent[blkParent[i]]] = "numbered_list_item"
          /\ LeadingSpaces(LinePrefix(i)) = 4

\* ================================================= retry policy claims
IsConnectionError(o) == o.kind = "ConnectionError"
IsRetryable(o) == IsTimeout(o) \/ IsConnectionError(o) \/ Is5xx(o)

\* The exception object an attempt's failure is raised as.
ExceptionOf(o) ==
    IF o.kind = "status" THEN HTTPError(o.status) ELSE Exc(o.kind, 0)

\* C15: the wait after failed attempt number a (0-indexed; the a-th wait of
\* the call, counted from 0) is RETRY_BACKOFF ^ a whatever the failure was
\* (timeout, connection error or 5xx response): every retryable failure is
\* followed by its wait, the waits are 1, 2, 4 for base 2, and they increase
\* strictly within one request.
C15_WaitIsBackoffPowerOfAttempt ==
    /\ \A i \in 1..Len(outcomes) :
         IsRetryable(outcomes[i]) =>
             /\ Len(sleeps) >= i
             /\ sleeps[i] = Pow(RETRY_BACKOFF, i - 1)
    /\ \A i \in 1..Len(sleeps) : IsRetryable(outcomes[i])
    /\ \A i \in 1..(Len(sleeps) - 1) : sleeps[i] < sleeps[i + 1]
    /\ (RETRY_BACKOFF = 2 =>
          \A i \in 1..Len(sleeps) : sleeps[i] = <<1, 2, 4>>[i])

C15_Witness ==
    /\ Len(outcomes) = MAX_RETRIES
    /\ IsTimeout(outcomes[1])
    /\ IsConnectionError(outcomes[2])
    /\ Is5xx(outcomes[3])
    /\ sleeps = <<1, 2, 4>>

\* C16: when all MAX_RETRIES attempts of a call fail with retryable failures
\* (of possibly different kinds), the exception the call raises is the one of
\* the final attempt.
C16_RaisesFinalAttemptFailure ==
    (/\ rpc = "raised"
     /\ Len(outcomes) = MAX_RETRIES
     /\ \A i \in 1..Len(outcomes) : IsRetryable(outcomes[i]))
    => raised = ExceptionOf(outcomes[MAX_RETRIES])

C16_Witness ==
    /\ rpc = "raised"
    /\ Len(outcomes) = MAX_RETRIES
    /\ IsConnectionError(outcomes[1])
    /\ Is5xx(outcomes[2])
    /\ IsTimeout(outcomes[3])
    /\ raised = TimeoutExc

\* A response status that is neither 2xx nor 4xx nor 5xx and above.
IsUnclassified(o) ==
    /\ o.kind = "status"
    /\ ~(200 <= o.status /\ o.status <= 299)
    /\ ~(400 <= o.status /\ o.status <= 499)
    /\ ~(o.status >= 500)

\* C17: an attempt that gets a response of unclassified status (1xx, 3xx) is
\* the last attempt of its call, the call raises an error, it does not sleep
\* after that attempt and it does not return the response.
C17_UnclassifiedStatusIsClientError ==
    \A i \in 1..Len(outcomes) :
        IsUnclassified(outcomes[i]) =>
            /\ i = Len(outcomes)
            /\ rpc = "raised"
            /\ raised # NoException
            /\ Len(sleeps) = i - 1

\* ==================================================== rich text claims
\* C13: rich_text_to_markdown distributes over concatenation: the rendering
\* of A + B is the rendering of A followed by the rendering of B, for all run
\* sequences A and B (empty ones and adjacent runs with equal annotations
\* included), and the empty sequence renders to the empty string.
C13_DistributesOverConcatenation ==
    rtCalled =>
        /\ rtOutAB = rtOutA \o rtOutB
        /\ (rtA = <<>> => rtOutA = <<>>)
        /\ (rtB = <<>> => rtOutB = <<>>)
        /\ (rtA = <<>> /\ rtB = <<>> => rtOutAB = <<>>)

C13_Witness ==
    /\ rtCalled
    /\ Len(rtA) = 1 /\ rtA[1].type = "text" /\ rtA[1].annotations = {"bold"}
    /\ rtB = rtA
    /\ rtOutAB = <<"**", "x", "**", "**", "x", "**">>

Mark(flag, mark) == IF flag THEN <<mark>> ELSE <<>>

\* The string the fixed wrapping order gives for one run.
WrappedInOrder(run) ==
    IF run.type = "equation"
    THEN <<"$">> \o run.expression \o <<"$">>
    ELSE Mark(run.href # <<>>, "[")
         \o Mark("strikethrough" \in run.annotations, "~~")
         \o Mark("code" \in run.annotations, Backtick)
         \o Mark("italic" \in run.annotations, "*")
         \o Mark("bold" \in run.annotations, "**")
         \o run.plain_text
         \o Mark("bold" \in run.annotations, "**")
         \o Mark("italic" \in run.annotations, "*")
         \o Mark("code" \in run.annotations, Backtick)
         \o Mark("strikethrough" \in run.annotations, "~~")
         \o (IF run.href # <<>> THEN <<"](">> \o run.href \o <<")">> ELSE <<>>)

\* C14: a text run with any subset of the flags bold, italic, code,
\* strikethrough and an optional href is wrapped in the order bold
\* (innermost), italic, code, strikethrough, link (outermost), a wrapper being
\* applied only when its flag is set; an equation run renders as
\* $expression$ whatever its annotations and href are.
C14_WrappingOrder ==
    rtCalled =>
        /\ (Len(rtA) = 1 => rtOutA = WrappedInOrder(rtA[1]))
        /\ (Len(rtB) = 1 => rtOutB = WrappedInOrder(rtB[1]))

C14_Witness ==
    /\ rtCalled
    /\ Len(rtA) = 1 /\ rtA[1].type = "text"
    /\ rtA[1].annotations = Annotations /\ rtA[1].href = <<"u">>
    /\ rtOutA = <<"[", "~~", Backtick, "*", "**", "x", "**", "*", Backtick, "~~",
                  "](", "u", ")">>
    /\ Len(rtB) = 1 /\ rtB[1].type = "equation"
    /\ rtB[1].annotations = Annotations /\ rtB[1].href = <<"u">>
    /\ rtOutB = <<"$", "e", "$">>

\* ======================================================== table claims
HasTable == \E i \in BlockIds : blkType[i] = "table"
TableId == CHOOSE i \in BlockIds : blkType[i] = "table"
\* The table_row children of the table, in fetched order.
TableRows == SelectSeq(ChildIds(TableId), LAMBDA i : blkType[i] = "table_row")

IsPipeLine(line) == Len(line) > 0 /\ line[1] = "| "

\* '| c1 | c2 | ... |' written out token by token for m cells.
PipeLine(m, cell(_)) ==
    <<"| ">>
    \o [x \in 1..(IF m = 0 THEN 0 ELSE 2 * m - 1) |->
          IF x % 2 = 1 THEN cell((x + 1) \div 2) ELSE " | "]
    \o <<" |">>

ExpectedRowLine(i) == PipeLine(blkCells[i], LAMBDA j : CellText(i, j))
ExpectedSeparator(m) == PipeLine(m, LAMBDA j : "---")

\* C11: for a table whose fetched children contain k >= 1 table rows, the
\* Markdown has k + 1 consecutive pipe lines and no other pipe line: the
\* header built from the cells of the first row, the separator with exactly as
\* many '---' cells as the header has cells, then one line per remaining row
\* in fetched order; the children of another type are left out.
C11_TableHeaderSeparatorRows ==
    (rendered /\ HasTable /\ Len(TableRows) >= 1) =>
        LET lines == SplitLines(md)
            k == Len(TableRows)
        IN /\ ~mdRaised
           /\ \E p \in 1..Len(lines) :
                /\ p + k <= Len(lines)
                /\ lines[p] = ExpectedRowLine(TableRows[1])
                /\ lines[p + 1] = ExpectedSeparator(blkCells[TableRows[1]])
                /\ Count("---", lines[p + 1]) = blkCells[TableRows[1]]
                /\ \A j \in 1..(k - 1) : lines[p + 1 + j] = ExpectedRowLine(TableRows[j + 1])
                /\ \A q \in 1..Len(lines) : IsPipeLine(lines[q]) => q \in p..(p + k)
           /\ \A i \in BlockIds :
                (blkParent[i] = TableId /\ blkType[i] # "table_row") => ~Present(i)

C11_Witness ==
    /\ rendered
    /\ blkType = <<"table", "table_row", "paragraph", "table_row", "table_row">>
    /\ blkParent = <<0, 1, 1, 1, 1>>
    /\ blkCells = <<0, 2, 0, 2, 2>>
    /\ md = <<"| ", "t2c1", " | ", "t2c2", " |", NL,
              "| ", "---", " | ", "---", " |", NL,
              "| ", "t4c1", " | ", "t4c2", " |", NL,
              "| ", "t5c1", " | ", "t5c2", " |", NL>>

\* The Markdown of the top-level paragraphs alone.
MarkdownWithoutTable ==
    LET tops == SelectSeq(ChildIds(0), LAMBDA i : blkType[i] = "paragraph")
    IN Join(<<NL>>, [x \in 1..(2 * Len(tops)) |->
                       IF x % 2 = 1 THEN <<Text(tops[(x + 1) \div 2])>> ELSE <<>>])

\* C12: a table whose fetched children contain no table row adds no line at
\* all: the Markdown is the one the page gives without the table.
C12_TableWithoutRowsAddsNoLine ==
    (rendered /\ HasTable /\ Len(TableRows) = 0) =>
        /\ ~mdRaised
        /\ md = MarkdownWithoutTable

\* ================================================= malformed shape claims
\* The key is not there for the code: itself missing, or in a missing payload.
Gone(block, key) == key \in block.missing \/ "payload" \in block.missing

BareRuns(runs) == [k \in 1..Len(runs) |-> [runs[k] EXCEPT !.missing = {}]]

\* The block with every missing field present and empty (the id apart, which
\* has no empty value).
WithEmptyValues(block) ==
    [block EXCEPT
       !.missing = block.missing \cap {"id"},
       !.rich_text = IF Gone(block, "rich_text") THEN <<>> ELSE BareRuns(@),
       !.checked = IF Gone(block, "checked") THEN FALSE ELSE @,
       !.language = IF Gone(block, "language") THEN <<>> ELSE @,
       !.expression = IF Gone(block, "expression") THEN <<>> ELSE @,
       !.caption = IF Gone(block, "caption") THEN <<>> ELSE BareRuns(@),
       !.url = IF Gone(block, "url") THEN <<>> ELSE @,
       !.icon = IF Gone(block, "icon") THEN <<>> ELSE @,
       !.cells = IF Gone(block, "cells") THEN <<>> ELSE @]

IsMalformed(i) == blkMissing[i] # {}

\* C19: blocks_to_markdown does not raise on a block that lacks any subset of
\* its expected keys (payload, rich_text, annotations, checked, language,
\* expression, caption, url, icon, cells, id): it returns the Markdown of the
\* page in which each missing field is present and empty, and the well-formed
\* blocks beside the malformed one are still rendered.
C19_MissingKeysAreEmptyValues ==
    (rendered /\ \E i \in BlockIds : IsMalformed(i)) =>
        LET tops == ChildIds(0) IN
        /\ ~mdRaised
        /\ md = blocks_to_markdown([k \in 1..Len(tops) |-> WithEmptyValues(Block(tops[k]))],
                                   TreeProvider, 0).md
        /\ \A i \in BlockIds : (blkParent[i] = 0 /\ ~IsMalformed(i)) => Present(i)

C19_Witness ==
    /\ rendered
    /\ blkType = <<"paragraph", "code", "paragraph">>
    /\ blkParent = <<0, 0, 0>>
    /\ blkMissing = <<{}, {"rich_text", "language", "id"}, {}>>
    /\ blkMode[2] = "ok"
    /\ md = <<"t1", NL, NL, Fence, NL, NL, Fence, NL, NL, "t3", NL>>

\* ==================================================== conversion claims
Covers(markdown, i) == \E k \in 1..Len(markdown) : markdown[k] = Text(i)

\* C18: a conversion run that has ended either returned Markdown that covers
\* every block of the page tree, or raised one exception that wraps the first
\* unrecoverable cause, wherever the failure was (page properties, top-level
\* blocks, children of a nested block).
C18_CompleteMarkdownOrWrappedCause ==
    \A p \in Procs :
        LET c == frames[Slot(p)] IN
        c.pc = "done" =>
            \/ /\ c.result = "returned"
               /\ \A i \in BlockIds : Covers(c.markdown, i)
            \/ /\ c.result = "raised"
               /\ c.raised = NotionAPIError
               /\ c.cause # NoException

CallEnded == rpc \in {"returned", "raised"}

\* C24: backoff sleeps occur only between attempts: a call that has ended
\* after k attempts has slept exactly k - 1 times, and a call never sleeps
\* after its last attempt (an attempt after which no attempt is left).
C24_SleepsOnlyBetweenAttempts ==
    /\ (CallEnded => Len(sleeps) = Len(outcomes) - 1)
    /\ (rpc = "sleep" => LoopContinues(attempt + 1))

CeilDiv(n, d) == (n + d - 1) \div d

\* C26 as stated: a returned _fetch_all_blocks call has made exactly
\* ceil(N / P) requests, for every N >= 0.
C26_CeilRequests ==
    fpc = "returned" => Len(requests) = CeilDiv(srvN, srvP)

\* C26 amended: one request per page and none after the first response
\* whose has_more is false; a returned call has made ceil(N / P) requests
\* when N >= 1 and one request when N = 0 (the empty list is learnt from a
\* response too); and every call ends, returning or raising.
C26_OneRequestPerPage ==
    /\ [](/\ Len(requests) <= Len(responses) + 1
          /\ \A i \in 1..Len(responses) :
                ~responses[i].has_more => (i = Len(responses) /\ Len(requests) = i)
          /\ (fpc = "returned" =>
                /\ Len(requests) = Len(responses)
                /\ Len(requests) = IF srvN = 0 THEN 1 ELSE CeilDiv(srvN, srvP)))
    /\ <>(fpc \in {"returned", "raised"})

C26_Witness ==
    /\ fpc = "returned"
    /\ srvN = 4 /\ srvP = 3
    /\ Len(requests) = 2
    /\ ~responses[2].has_more

\* C27: a call returns the response of the first attempt that succeeds, after
\* k - 1 retryable failures, raising nothing and having made exactly k
\* attempts; a call that still has retryable failures only has not raised
\* before the MAX_RETRIES-th attempt; no call makes more than MAX_RETRIES
\* attempts, and every call ends.
C27_TransientFailuresSurfaceAfterExhaustion ==
    /\ [](/\ Len(outcomes) <= MAX_RETRIES
          /\ \A k \in 1..Len(outcomes) :
                (/\ outcomes[k].kind = "status"
                 /\ outcomes[k].status = 200
                 /\ \A i \in 1..(k - 1) : IsRetryable(outcomes[i]))
                => /\ k = Len(outcomes)
                   /\ rpc = "returned"
                   /\ raised = NoException
                   /\ response.status = 200
                   /\ attempt = k - 1
          /\ ((rpc = "raised" /\ \A i \in 1..Len(outcomes) : IsRetryable(outcomes[i]))
                => Len(outcomes) = MAX_RETRIES))
    /\ [](rpc \in {"attempt", "sleep"} => <>CallEnded)

C27_Witness ==
    /\ rpc = "returned"
    /\ Len(outcomes) = MAX_RETRIES
    /\ IsTimeout(outcomes[1])
    /\ Is5xx(outcomes[2])
    /\ outcomes[3].status = 200
    /\ response.status = 200

\* C29: whenever the retry loop ends without returning, a failure has been
\* recorded: the fallback RequestException is never raised, and the exception
\* a call raises is the one its last attempt produced.
C29_FallbackUnreachable ==
    /\ raised # FallbackExc
    /\ fraised # FallbackExc
    /\ (rpc = "sleep" => last_exception # NoException)
    /\ (rpc = "raised" =>
          /\ Len(outcomes) >= 1
          /\ raised = ExceptionOf(outcomes[Len(outcomes)]))

C29_Witness ==
    /\ rpc = "raised"
    /\ Len(outcomes) = MAX_RETRIES
    /\ \A i \in 1..MAX_RETRIES : Is5xx(outcomes[i])
    /\ raised = HTTPError(outcomes[MAX_RETRIES].status)
    /\ fraised = raised

\* ================================================= provider call claims
RECURSIVE Visited(_)
\* Block i is one of the blocks a blocks_to_markdown loop iterates over: a
\* top-level block, or a child that a successful fetch for a visited block
\* other than a table handed to the recursive run.
Visited(i) ==
    \/ blkParent[i] = 0
    \/ /\ given
       /\ blkMode[blkParent[i]] = "ok"
       /\ blkType[blkParent[i]] # "table"
       /\ Visited(blkParent[i])

CallsOf(i) == Cardinality({k \in 1..Len(calls) : calls[k] = i})

\* C23: in one run with a provider, the provider is called exactly once, with
\* the block's id, for every visited block whose has_children is true (a
\* table included, a failing fetch included) and never for another block, in
\* document order; only children that were fetched are in the output; without
\* a provider nothing is fetched and no child is rendered.
C23_ProviderCalledOncePerParent ==
    rendered =>
        /\ \A i \in BlockIds :
             CallsOf(i) = IF given /\ Visited(i) /\ blkMode[i] # "leaf" THEN 1 ELSE 0
        /\ \A k \in 1..Len(calls) : calls[k] \in BlockIds
        /\ \A k \in 1..(Len(calls) - 1) : calls[k] < calls[k + 1]
        /\ \A i \in BlockIds : (Present(i) /\ blkParent[i] # 0) => CallsOf(blkParent[i]) = 1
        /\ (~given => calls = <<>> /\ \A i \in BlockIds : blkParent[i] # 0 => ~Present(i))

C23_Witness ==
    /\ rendered
    /\ given
    /\ blkType = <<"bulleted_list_item", "table", "bulleted_list_item">>
    /\ blkParent = <<0, 1, 0>>
    /\ blkMode = <<"ok", "ok", "leaf">>
    /\ calls = <<1, 2>>

\* C30: a block of an unknown type, or of no type, emits no line of its own;
\* when its has_children is true and a provider is given its children are
\* fetched and rendered one level below it, as below a known block, and its
\* later siblings are rendered after them at their own level.
C30_UnknownTypeIsStillATreeNode ==
    rendered =>
        \A u \in BlockIds :
            (blkType[u] \in UnknownTypes /\ Visited(u)) =>
                /\ ~mdRaised
                /\ ~Present(u)
                /\ (given /\ blkMode[u] # "leaf") => CallsOf(u) = 1
                /\ \A c \in BlockIds :
                     (given /\ blkMode[u] = "ok" /\ blkParent[c] = u
                      /\ blkType[c] = "bulleted_list_item") =>
                         /\ Present(c)
                         /\ LeadingSpaces(LinePrefix(c)) = 2 * (Depth(u) + 1)
                /\ \A j \in BlockIds :
                     (j > u /\ blkParent[j] = blkParent[u]
                      /\ blkType[j] = "bulleted_list_item") =>
                         /\ Present(j)
                         /\ LeadingSpaces(LinePrefix(j)) = 2 * Depth(u)
                         /\ \A c \in BlockIds :
                              (IsAncestor(blkParent, u, c) /\ Present(c)) => Pos(c) < Pos(j)

C30_Witness ==
    /\ rendered
    /\ given
    /\ blkType = <<"unsupported", "bulleted_list_item", "bulleted_list_item">>
    /\ blkParent = <<0, 1, 0>>
    /\ blkMode = <<"ok", "leaf", "leaf">>
    /\ md = <<IndentUnit, "- ", "t2", NL, "- ", "t3">>

\* ===================================================== fetch order claim
\* The block whose children request number k of the run asks for.
TargetOf(cell, k) == cell.requests[k].url[2]

\* Request k of the run is one for the children of a block (or of the page).
IsChildrenRequest(cell, k) == Len(cell.requests[k].url) = 3

\* The run is waiting for, or between the attempts of, its latest request.
InFlight(cell) == IF cell.pc = "done" THEN 0 ELSE 1

FetchOrder(cell) ==
    LET reqs == cell.requests
        page(k) == ServerPage(Len(ChildIds(TargetOf(cell, k))), srvP, Cursor(reqs[k].params))
    IN
    /\ Len(reqs) >= 1 /\ reqs[1] = Request(PagesUrl, {})
    /\ \A k \in 2..Len(reqs) : IsChildrenRequest(cell, k)
    \* pre-order: targets never go back, so the requests of a block are adjacent
    /\ \A k \in 2..(Len(reqs) - 1) : TargetOf(cell, k) <= TargetOf(cell, k + 1)
    \* page k+1 of a block is asked for with the cursor page k returned
    /\ \A k \in 2..(Len(reqs) - 1) :
         IF TargetOf(cell, k) = TargetOf(cell, k + 1)
         THEN /\ page(k).has_more
              /\ reqs[k + 1].params = BuildParams(page(k).next_cursor)
         ELSE reqs[k + 1].params = {}
    /\ Len(reqs) >= 2 => reqs[2] = Request(ChildrenUrl(0), {})
    \* nothing below or after a block is asked for while the block waits
    /\ \A i \in Pending(cell) : \A k \in 2..Len(reqs) : TargetOf(cell, k) <= i
    \* a block is asked for only after every page of the list that names it
    /\ \A k \in 3..Len(reqs) :
         LET t == TargetOf(cell, k) IN
         t # 0 =>
         /\ t \in BlockIds
         /\ cell.fetched[blkParent[t]] = "ok"
         /\ Cardinality({m \in 2..(k - 1) : TargetOf(cell, m) = blkParent[t]})
              = CeilDiv(Len(ChildIds(blkParent[t])), srvP)
         \* and after the whole subtree of every earlier sibling
         /\ \A e \in BlockIds :
              (e < t /\ ~IsAncestor(blkParent, e, t) /\ blkMode[e] # "leaf") =>
                  \/ cell.fetched[e] # "none"
                  \/ \E a \in BlockIds : IsAncestor(blkParent, a, e) /\ cell.fetched[a] = "fail"

IsDigit(ch) == ch = "1"

\* Every dollar sign of the text stands directly before an amount or directly
\* after a space.
PriceLike(text) ==
    \A i \in 1..Len(text) :
        text[i] = "$" =>
            \/ (i < Len(text) /\ IsDigit(text[i + 1]))
            \/ (i > 1 /\ text[i - 1] = " ")

\* C21: _has_math_content returns false for every text whose dollar signs are
\* all price-like and that has no backslash-bracket, with one amount or with
\* several on one line.
C21_PricesAreNotMath ==
    (detectCalled /\ PriceLike(content) /\ ~BracketMath(content)) => ~detected

\* The runs hold no equation, no dollar sign and no backslash-bracket.
NoMathMarkers(rich_text) ==
    \A k \in 1..Len(rich_text) :
        /\ rich_text[k].type # "equation"
        /\ \A c \in 1..Len(rich_text[k].plain_text) : rich_text[k].plain_text[c] # "$"
        /\ ~BracketMath(rich_text[k].plain_text)
        /\ ~BracketMath(rich_text[k].href)

\* C22: for a page without equations whose strings hold no dollar sign and no
\* backslash-bracket, _has_math_content of the rendered Markdown is false, and
\* it is true of that Markdown with a display formula appended.
C22_RenderedMarkdownHasNoMarker ==
    (pageCalled /\ NoMathMarkers(page_runs)) =>
        /\ ~_has_math_content(markdown_content)
        /\ _has_math_content(markdown_content \o <<"$", "$", "x", "$", "$">>)

\* The MathJax property of the page, or else its mathjax property.
MathProperty ==
    IF "MathJax" \notin properties.missing THEN properties.MathJax ELSE properties.mathjax
HasMathCheckbox ==
    /\ properties.missing # {"MathJax", "mathjax"}
    /\ MathProperty.type = "checkbox"

\* C28: the mathjax flag fetch_notion_page returns is the value of the page's
\* MathJax (or else mathjax) property when that property is a checkbox, false
\* when the checkbox carries no value, whatever the Markdown contains; without
\* such a property it is true exactly when _has_math_content of the rendered
\* Markdown is true.
C28_CheckboxBeatsDetection ==
    pageCalled =>
        /\ HasMathCheckbox =>
             mathjax = ("checkbox" \notin MathProperty.missing /\ MathProperty.checkbox)
        /\ properties.missing = {"MathJax", "mathjax"} =>
             (mathjax <=> _has_math_content(markdown_content))
        /\ ~HasMathCheckbox => (mathjax <=> _has_math_content(markdown_content))

C28_Witness ==
    /\ pageCalled
    /\ "mathjax" \notin properties.missing /\ "MathJax" \in properties.missing
    /\ properties.mathjax.type = "checkbox" /\ ~properties.mathjax.checkbox
    /\ "checkbox" \notin properties.mathjax.missing
    /\ page_runs = <<EquationRun(<<"e">>)>>
    /\ markdown_content = <<"$", "e", "$", NL>>
    /\ _has_math_content(markdown_content)
    /\ ~mathjax

====
